---- MODULE Spec2Model ----
(***************************************************************************)
(* Warehouse RAG system: the natural-language update path of app.py        *)
(* (parse_update_query, apply_data_updates, save_inventory_data and the    *)
(* "Apply Updates" handler), run by concurrent Streamlit sessions against  *)
(* the shared dataset file ./data/inventory.csv, which the indexing        *)
(* pipeline of main-fixed.py reads.                                        *)
(*                                                                         *)
(* A command is a sequence of whitespace-separated tokens as typed.  The   *)
(* regular expressions of parse_update_query work on characters; they are  *)
(* modelled on tokens, with per-token tables for what a character-level    *)
(* match sees inside a token (its lower-case form, its digit run, its      *)
(* leading \w+ run, a "to"/"as" inside a word).                            *)
(*                                                                         *)
(* The dataset file is a sequence of rows.  open(path, "w") truncates it,  *)
(* each writer then writes its rows at its own file offset, so a write in  *)
(* progress is visible to readers and to other writers row by row.  The    *)
(* simulator of data_generator.py replaces the file by a rename; a handle  *)
(* opened before the rename then writes to the replaced file.              *)
(***************************************************************************)
EXTENDS Integers, Sequences, FiniteSets, TLC

\* Bound of the model: how many update commands are submitted in one run.
MaxCommands == 2

\* The browser sessions that run the Streamlit script concurrently.
Sessions == {"s1", "s2"}

\* InventorySchema / the header of inventory.csv.
Columns ==
    {"ProductID", "ProductName", "Location", "CurrentStock", "LastSoldDate",
     "ExpiryDate", "SalesLastMonth", "TotalSales", "FactoryDistanceKM"}

\* The dataset before any command: unique ProductIDs; two records share a
\* product name up to case, one has a two-word name.
InitTable ==
    << [ProductID |-> 11023, ProductName |-> "Anand", Location |-> "SectionA",
        CurrentStock |-> 5, LastSoldDate |-> "2025-09-20",
        ExpiryDate |-> "2025-09-25", SalesLastMonth |-> 45,
        TotalSales |-> 320, FactoryDistanceKM |-> 8],
       [ProductID |-> 11024, ProductName |-> "Organic Apples", Location |-> "SectionC",
        CurrentStock |-> 0, LastSoldDate |-> "2025-09-19",
        ExpiryDate |-> "2025-09-28", SalesLastMonth |-> 0,
        TotalSales |-> 180, FactoryDistanceKM |-> 12],
       [ProductID |-> 11025, ProductName |-> "ANAND", Location |-> "SectionA",
        CurrentStock |-> 75, LastSoldDate |-> "2025-09-21",
        ExpiryDate |-> "2025-10-15", SalesLastMonth |-> 120,
        TotalSales |-> 650, FactoryDistanceKM |-> 8] >>

\* A region of the file no writer has filled (bytes past a truncation).
Hole ==
    [ProductID |-> -1, ProductName |-> "\\0", Location |-> "\\0",
     CurrentStock |-> -1, LastSoldDate |-> "\\0", ExpiryDate |-> "\\0",
     SalesLastMonth |-> -1, TotalSales |-> -1, FactoryDistanceKM |-> -1]

SetMin(S) == CHOOSE x \in S : \A y \in S : x <= y
SetMax(S) == CHOOSE x \in S : \A y \in S : x >= y

EmptyDict == [k \in {} |-> 0]
EmptyTable == << >>

(***************************************************************************)
(* Tokens                                                                  *)
(***************************************************************************)

\* str.lower() on the tokens of the model's vocabulary.
LowerTable ==
    ("Update" :> "update") @@ ("Set" :> "set") @@ ("Anand" :> "anand") @@
    ("ANAND" :> "anand") @@ ("Dubey" :> "dubey") @@ ("Ghost" :> "ghost") @@
    ("Organic" :> "organic") @@ ("Apples" :> "apples") @@
    ("SectionA" :> "sectiona") @@ ("SectionB" :> "sectionb") @@
    ("SectionC" :> "sectionc") @@ ("Organic Apples" :> "organic apples")

Lower(w) == IF w \in DOMAIN LowerTable THEN LowerTable[w] ELSE w

\* int() of the first run of digits of a token (\d+).
DigitRun ==
    ("11023" :> 11023) @@ ("11024" :> 11024) @@ ("11025" :> 11025) @@
    ("11099" :> 11099) @@ ("50" :> 50) @@ ("5" :> 5) @@ ("75" :> 75) @@
    ("2025-09-23" :> 2025) @@ ("2025-10-15" :> 2025)

\* The leading \w+ run of a token, where it is not the whole token.
WordRunTable == ("2025-09-23" :> "2025") @@ ("2025-10-15" :> "2025")

WordRun(w) == IF w \in DOMAIN WordRunTable THEN WordRunTable[w] ELSE w

\* Keywords that hold "to" or "as" inside, and the \w+ that follows it there.
InWord == ("stock" :> "ck") @@ ("last" :> "t") @@ ("factory" :> "ry")

ToAs == {"to", "as"}

\* Whether keyword kw occurs in token w ("update" holds "date").
Has(w, kw) == w = kw \/ (kw = "date" /\ w = "update")

(***************************************************************************)
(* parse_update_query                                                      *)
(***************************************************************************)

\* What a capture group takes from the token it starts in:
\* (\d+) -> int, ([0-9-]+) -> the date-shaped text, (\w+) -> a word.
Capturable(kind, w) == kind = "word" \/ w \in DOMAIN DigitRun

Capture(kind, w) ==
    CASE kind = "int" -> DigitRun[w]
      [] kind = "date" -> w
      [] OTHER -> WordRun(w)

\* The tail  .*?(?:to|as)\s*(group)  searched after token e: the lazy .*?
\* stops at the first "to"/"as" that the group can follow.  {} when none.
ToAsCapture(q, e, kind) ==
    LET inword(t) == kind = "word" /\ q[t] \in DOMAIN InWord
        spaced(t) == q[t] \in ToAs /\ t < Len(q) /\ Capturable(kind, q[t + 1])
        T == {t \in (e + 1)..Len(q) : inword(t) \/ spaced(t)}
    IN  IF T = {} THEN {}
        ELSE LET t == SetMin(T)
             IN  IF inword(t) THEN {InWord[q[t]]}
                 ELSE {Capture(kind, q[t + 1])}

\* Where the keyword phrase  k1.*?k2.*?...  ends when k1 is token s (each
\* lazy .*? takes the first occurrence of the next keyword); 0 when it
\* does not match there.
RECURSIVE PhraseEnd(_, _, _)
PhraseEnd(q, s, ks) ==
    IF ~Has(q[s], ks[1]) THEN 0
    ELSE IF Len(ks) = 1 THEN s
    ELSE LET N == {j \in (s + 1)..Len(q) : Has(q[j], ks[2])}
         IN  IF N = {} THEN 0 ELSE PhraseEnd(q, SetMin(N), Tail(ks))

\* re.search of  update.*(?:alt1|alt2).*?(?:to|as)\s*(group) : the match
\* starts at the first "update"; the greedy .* takes the last place where
\* an alternative starts and the rest still matches.
FieldMatch(q, alts, kind) ==
    LET U == {u \in 1..Len(q) : Has(q[u], "update")}
        Ends(s) == {PhraseEnd(q, s, a) : a \in alts} \ {0}
        Good(s) == {e \in Ends(s) : ToAsCapture(q, e, kind) # {}}
        S == IF U = {} THEN {}
             ELSE {s \in (SetMin(U) + 1)..Len(q) : Good(s) # {}}
    IN  IF S = {} THEN {}
        ELSE ToAsCapture(q, SetMin(Good(SetMax(S))), kind)

\* Mutant of ProductIdMatch: the pattern without its leading "product".
ProductIdMatch_AnyDigits(q) ==
    LET D == {d \in 1..Len(q) : q[d] \in DOMAIN DigitRun}
    IN  IF D = {} THEN {} ELSE {DigitRun[q[SetMin(D)]]}

\* re.search(r'product.*?(?:id|number)?\s*(\d+)', query): the first run of
\* digits after the first "product".
ProductIdMatch(q) ==
    LET P == {p \in 1..Len(q) : Has(q[p], "product")}
        D == IF P = {} THEN {}
             ELSE {d \in (SetMin(P) + 1)..Len(q) : q[d] \in DOMAIN DigitRun}
    IN  IF D = {} THEN {} ELSE {DigitRun[q[SetMin(D)]]}

\* The rename pattern  update.*product.*name.*?(\w+).*?(?:as|to)\s*(\w+) :
\* the last "name" after a "product" after "update" from which the rest
\* matches; group 1 is the word after it, group 2 the word after to/as.
NameMatch(q) ==
    LET U == {u \in 1..Len(q) : Has(q[u], "update")}
        valid(n) ==
            /\ Has(q[n], "name")
            /\ \E p \in (SetMin(U) + 1)..(n - 1) : Has(q[p], "product")
            /\ n < Len(q)
            /\ ToAsCapture(q, n + 1, "word") # {}
        N == IF U = {} THEN {} ELSE {n \in 1..Len(q) : valid(n)}
    IN  IF N = {} THEN {}
        ELSE LET n == SetMax(N)
             IN  {<<WordRun(q[n + 1]),
                    CHOOSE v \in ToAsCapture(q, n + 1, "word") : TRUE>>}

\* field.replace('_', ' ').title().replace(' ', '') on the pattern names.
TitleKey ==
    ("current_stock" :> "CurrentStock") @@
    ("last_sold_date" :> "LastSoldDate") @@
    ("expiry_date" :> "ExpiryDate") @@
    ("sales_last_month" :> "SalesLastMonth") @@
    ("factory_distance" :> "FactoryDistance")

\* Mutant of Entry: the pattern is matched whatever the case of the letters
\* and the value is taken as it was typed.
Entry_AsTyped(key, found) ==
    IF found = {} THEN EmptyDict
    ELSE LET v == CHOOSE v \in found : TRUE
             typed == IF key = "Location"
                      THEN {w \in DOMAIN LowerTable : LowerTable[w] = v}
                      ELSE {}
         IN  key :> (IF typed = {} THEN v ELSE CHOOSE w \in typed : TRUE)

\* One entry of the updates dict, when the pattern matched.
Entry(key, found) ==
    IF found = {} THEN EmptyDict ELSE key :> (CHOOSE v \in found : TRUE)

parse_update_query(query) ==
    LET q == [i \in 1..Len(query) |-> Lower(query[i])]
        nm == NameMatch(q)
    IN  Entry("ProductID", ProductIdMatch(q))
        @@ (IF nm = {} THEN EmptyDict
            ELSE LET g == CHOOSE g \in nm : TRUE
                 IN  ("old_name" :> g[1]) @@ ("ProductName" :> g[2]))
        @@ Entry(TitleKey["current_stock"],
                 FieldMatch(q, {<<"stock">>, <<"current", "stock">>}, "int"))
        @@ Entry(TitleKey["last_sold_date"],
                 FieldMatch(q, {<<"last", "sold", "date">>}, "date"))
        @@ Entry(TitleKey["expiry_date"],
                 FieldMatch(q, {<<"expiry", "date">>}, "date"))
        @@ Entry(TitleKey["sales_last_month"],
                 FieldMatch(q, {<<"sales", "last", "month">>,
                                <<"last", "month", "sales">>}, "int"))
        @@ Entry("Location", FieldMatch(q, {<<"location">>}, "word"))
        @@ Entry(TitleKey["factory_distance"],
                 FieldMatch(q, {<<"factory", "distance">>,
                                <<"distance", "factory">>}, "int"))

(***************************************************************************)
(* The commands a user types (the inputs of the model)                     *)
(***************************************************************************)

IdTokens == {"11023", "11024", "11099"}

\* "Update product <id> stock to <n>"
StockCommand(id, n) == <<"Update", "product", id, "stock", "to", n>>

StockCommands == {StockCommand(id, n) : id \in IdTokens, n \in {"5", "50"}}

LocationCommands ==
    {<<"Update", "product", id, "location", "to", "SectionB">> :
        id \in {"11023", "11024"}}

\* Commands with a field and a value but no product identifier.
NoTargetCommands ==
    { <<"update", "location", "to", "SectionB">>,
      <<"Update", "Organic", "Apples", "location", "to", "SectionB">>,
      <<"Update", "stock", "to", "50">> }

\* The rename form, alone and together with a ProductID.
RenameCommands ==
    { <<"Update", "product", "name", "Anand", "as", "Dubey">>,
      <<"Update", "product", "name", "Ghost", "to", "Dubey">>,
      <<"Update", "product", "11024", "name", "Anand", "as", "Dubey">> }

OtherFieldCommands ==
    { <<"Update", "product", "11023", "sales", "last", "month", "to", "75">>,
      <<"Update", "product", "11025", "last", "sold", "date", "to", "2025-09-23">>,
      <<"Update", "product", "11024", "expiry", "date", "to", "2025-10-15">>,
      <<"Update", "product", "11023", "factory", "distance", "to", "5">>,
      <<"Update", "product", "11023", "stock", "to", "50",
        "location", "to", "SectionB">> }

\* A selector and nothing to set; a verb the patterns do not know; noise.
DegenerateCommands ==
    { <<"Update", "product", "11023">>,
      <<"Set", "product", "11023", "stock", "to", "50">>,
      <<"hello">> }

Commands ==
    StockCommands \cup LocationCommands \cup NoTargetCommands
    \cup RenameCommands \cup OtherFieldCommands \cup DegenerateCommands

(***************************************************************************)
(* apply_data_updates                                                      *)
(***************************************************************************)

Rows(df) == 1..Len(df)

\* Mutant of Mask: the name is looked at before the ProductID.
Mask_NameFirst(df, updates) ==
    IF "old_name" \in DOMAIN updates
    THEN {i \in Rows(df) :
            Lower(df[i].ProductName) = Lower(updates["old_name"])}
    ELSE {i \in Rows(df) : df[i].ProductID = updates["ProductID"]}

\* "Find the row to update": by ProductID when the dict holds one, else by
\* the old name, compared in lower case.  Called only with a selector.
Mask(df, updates) ==
    IF "ProductID" \in DOMAIN updates
    THEN {i \in Rows(df) : df[i].ProductID = updates["ProductID"]}
    ELSE {i \in Rows(df) :
            Lower(df[i].ProductName) = Lower(updates["old_name"])}

\* The keys of the dict that are columns of the frame.
UpdatedFields(updates) == DOMAIN updates \cap Columns

\* Mutant of WriteRows: df[key] = value, the mask forgotten.
WriteRows_AllRows(df, mask, updates) ==
    [i \in Rows(df) |->
        [c \in Columns |->
            IF c \in DOMAIN updates \cap Columns THEN updates[c] ELSE df[i][c]]]

\* Mutant of WriteRows: the parsed number is added to an integer column
\* instead of replacing it.
WriteRows_Increment(df, mask, updates) ==
    [i \in Rows(df) |->
        IF i \in mask
        THEN [c \in Columns |->
                IF c \in (DOMAIN updates \cap Columns) \ {"ProductID"}
                THEN IF c \in {"CurrentStock", "SalesLastMonth"}
                     THEN df[i][c] + updates[c]
                     ELSE updates[c]
                ELSE df[i][c]]
        ELSE df[i]]

\* df.loc[mask, key] = value, for every key that is a column.
WriteRows(df, mask, updates) ==
    [i \in Rows(df) |->
        IF i \in mask
        THEN [c \in Columns |->
                IF c \in UpdatedFields(updates) THEN updates[c] ELSE df[i][c]]
        ELSE df[i]]

\* The returned (df, message); the message is kept as its kind and the list
\* of updated fields.
Outcome(df, kind, fields) == [df |-> df, kind |-> kind, fields |-> fields]

\* Mutant of apply_data_updates: a selector that matches nothing inserts
\* a record instead of being rejected.
apply_data_updates_Upsert(df, updates) ==
    IF df = EmptyTable THEN Outcome(df, "NoData", {})
    ELSE IF ~({"ProductID", "old_name"} \cap DOMAIN updates # {})
    THEN Outcome(df, "MissingTarget", {})
    ELSE IF Mask(df, updates) = {}
    THEN Outcome(Append(df, [c \in Columns |->
                               IF c \in DOMAIN updates THEN updates[c]
                               ELSE Hole[c]]),
                 "NotFound", {})
    ELSE Outcome(WriteRows(df, Mask(df, updates), updates), "Success",
                 UpdatedFields(updates))

apply_data_updates(df, updates) ==
    IF df = EmptyTable THEN Outcome(df, "NoData", {})
    ELSE IF ~({"ProductID", "old_name"} \cap DOMAIN updates # {})
    THEN Outcome(df, "MissingTarget", {})
    ELSE IF Mask(df, updates) = {} THEN Outcome(df, "NotFound", {})
    ELSE IF UpdatedFields(updates) # {}
    THEN Outcome(WriteRows(df, Mask(df, updates), updates), "Success",
                 UpdatedFields(updates))
    ELSE Outcome(WriteRows(df, Mask(df, updates), updates), "NoValid", {})

(***************************************************************************)
(* The dataset file                                                        *)
(***************************************************************************)

\* pd.read_csv in load_inventory_data: an empty file (no header yet) or one
\* with unwritten regions does not load; the function returns an empty
\* frame.  A file a writer has only partly written loads as its prefix.
load_inventory_data(file) ==
    IF file = EmptyTable \/ \E i \in Rows(file) : file[i] = Hole
    THEN EmptyTable
    ELSE file

\* One write() of a row at offset pos of a handle opened with "w": it
\* overwrites what is there, appends at the end, and leaves a hole when the
\* file was truncated below the offset by another open.
WriteAt(file, pos, row) ==
    IF pos <= Len(file) THEN [file EXCEPT ![pos] = row]
    ELSE file \o [i \in 1..(pos - Len(file) - 1) |-> Hole] \o <<row>>

(***************************************************************************)
(* create_document_text (main-fixed.py): the document of one record        *)
(***************************************************************************)

\* Bound of the model: the largest CurrentStock a projected record is
\* given.
MaxStock == 60

\* datetime.strptime(text, '%Y-%m-%d') on the date-shaped texts of the
\* model: the year, month and day fields as read.  A text that is not in the
\* table is not of the format.
StrptimeTable ==
    ("2024-02-29" :> <<2024, 2, 29>>) @@ ("2025-02-30" :> <<2025, 2, 30>>) @@
    ("2025-09-19" :> <<2025, 9, 19>>) @@ ("2025-09-20" :> <<2025, 9, 20>>) @@
    ("2025-09-21" :> <<2025, 9, 21>>) @@ ("2025-09-22" :> <<2025, 9, 22>>) @@
    ("2025-09-23" :> <<2025, 9, 23>>) @@ ("2025-09-25" :> <<2025, 9, 25>>) @@
    ("2025-09-28" :> <<2025, 9, 28>>) @@ ("2025-09-29" :> <<2025, 9, 29>>) @@
    ("2025-09-30" :> <<2025, 9, 30>>) @@ ("2025-10-15" :> <<2025, 10, 15>>) @@
    ("2025-10-22" :> <<2025, 10, 22>>) @@ ("2025-10-23" :> <<2025, 10, 23>>) @@
    ("2025-11-21" :> <<2025, 11, 21>>) @@ ("2025-13-45" :> <<2025, 13, 45>>) @@
    ("2026-03-01" :> <<2026, 3, 1>>)

IsLeap(y) == y % 4 = 0 /\ (y % 100 # 0 \/ y % 400 = 0)

DaysInMonth(y, m) ==
    CASE m \in {4, 6, 9, 11} -> 30
      [] m = 2 -> IF IsLeap(y) THEN 29 ELSE 28
      [] OTHER -> 31

RECURSIVE DaysBeforeMonth(_, _)
DaysBeforeMonth(y, m) ==
    IF m = 1 THEN 0 ELSE DaysBeforeMonth(y, m - 1) + DaysInMonth(y, m - 1)

DaysBeforeYear(y) ==
    (y - 1) * 365 + ((y - 1) \div 4) - ((y - 1) \div 100) + ((y - 1) \div 400)

\* date.toordinal(): the number of the day in the proleptic calendar.
ToOrdinal(ymd) == DaysBeforeYear(ymd[1]) + DaysBeforeMonth(ymd[1], ymd[2]) + ymd[3]

\* Whether strptime returns a date (it raises ValueError otherwise).
Parses(text) ==
    /\ text \in DOMAIN StrptimeTable
    /\ StrptimeTable[text][2] \in 1..12
    /\ StrptimeTable[text][3] \in
          1..DaysInMonth(StrptimeTable[text][1], StrptimeTable[text][2])

\* current_date = date(2025, 9, 22)
current_date == <<2025, 9, 22>>

\* (expiry - current_date).days
days_to_expiry(expiry_date) ==
    ToOrdinal(StrptimeTable[expiry_date]) - ToOrdinal(current_date)

\* Mutant of stock_status: "< 50" written as "<= 50".
stock_status_Le50(current_stock) ==
    IF current_stock = 0 THEN "OUT OF STOCK"
    ELSE IF current_stock < 10 THEN "CRITICAL LOW STOCK"
    ELSE IF current_stock <= 50 THEN "LOW STOCK"
    ELSE "ADEQUATE STOCK"

\* Mutant of stock_status: "< 10" written as "<= 10".
stock_status_Le10(current_stock) ==
    IF current_stock = 0 THEN "OUT OF STOCK"
    ELSE IF current_stock <= 10 THEN "CRITICAL LOW STOCK"
    ELSE IF current_stock < 50 THEN "LOW STOCK"
    ELSE "ADEQUATE STOCK"

stock_status(current_stock) ==
    IF current_stock = 0 THEN "OUT OF STOCK"
    ELSE IF current_stock < 10 THEN "CRITICAL LOW STOCK"
    ELSE IF current_stock < 50 THEN "LOW STOCK"
    ELSE "ADEQUATE STOCK"

\* Mutant of expiry_status: "<= 7" and "<= 30" written as "< 7" and "< 30".
expiry_status_Strict(expiry_date) ==
    IF ~Parses(expiry_date) THEN "UNKNOWN EXPIRY"
    ELSE IF days_to_expiry(expiry_date) < 0 THEN "EXPIRED"
    ELSE IF days_to_expiry(expiry_date) < 7 THEN "EXPIRES SOON - URGENT"
    ELSE IF days_to_expiry(expiry_date) < 30 THEN "EXPIRES THIS MONTH"
    ELSE "FRESH"

\* The try block: the labels by days to expiry, "UNKNOWN EXPIRY" when
\* strptime raises.
expiry_status(expiry_date) ==
    IF ~Parses(expiry_date) THEN "UNKNOWN EXPIRY"
    ELSE IF days_to_expiry(expiry_date) < 0 THEN "EXPIRED"
    ELSE IF days_to_expiry(expiry_date) <= 7 THEN "EXPIRES SOON - URGENT"
    ELSE IF days_to_expiry(expiry_date) <= 30 THEN "EXPIRES THIS MONTH"
    ELSE "FRESH"

demand_status(sales_last_month) ==
    IF sales_last_month > 100 THEN "HIGH DEMAND"
    ELSE IF sales_last_month > 50 THEN "MEDIUM DEMAND"
    ELSE IF sales_last_month > 0 THEN "LOW DEMAND"
    ELSE "NO RECENT SALES"

distance_status(factory_distance_km) ==
    IF factory_distance_km <= 5 THEN "CLOSE TO FACTORY"
    ELSE IF factory_distance_km <= 15 THEN "MODERATE DISTANCE"
    ELSE "FAR FROM FACTORY"

\* Mutant of priority: an expired product counts as urgent too.
priority_ExpiredIsHigh(stock, expiry) ==
    IF stock \in {"CRITICAL LOW STOCK", "OUT OF STOCK"}
       \/ expiry \in {"EXPIRES SOON - URGENT", "EXPIRED"}
    THEN "HIGH PRIORITY"
    ELSE "NORMAL PRIORITY"

\* The Priority line of the document.
priority(stock, expiry) ==
    IF stock \in {"CRITICAL LOW STOCK", "OUT OF STOCK"}
       \/ expiry = "EXPIRES SOON - URGENT"
    THEN "HIGH PRIORITY"
    ELSE "NORMAL PRIORITY"

\* No document built yet.
NoDocument == [text |-> "none"]

\* Mutant of create_document_text: without the try/except, a date that
\* does not parse ends the function with the exception and no document.
create_document_text_Raises(row) ==
    IF ~Parses(row.ExpiryDate) THEN [text |-> "ValueError"]
    ELSE [text |-> "Product Information",
          product_id |-> row.ProductID,
          product_name |-> row.ProductName,
          location |-> row.Location,
          current_stock |-> row.CurrentStock,
          stock_status |-> stock_status(row.CurrentStock),
          last_sold_date |-> row.LastSoldDate,
          expiry_date |-> row.ExpiryDate,
          expiry_status |-> expiry_status(row.ExpiryDate),
          sales_last_month |-> row.SalesLastMonth,
          demand_status |-> demand_status(row.SalesLastMonth),
          total_sales |-> row.TotalSales,
          factory_distance_km |-> row.FactoryDistanceKM,
          distance_status |-> distance_status(row.FactoryDistanceKM),
          priority |-> priority(stock_status(row.CurrentStock),
                                expiry_status(row.ExpiryDate))]

\* The document of a row: every field value and every label of the text.
create_document_text(row) ==
    [text |-> "Product Information",
     product_id |-> row.ProductID,
     product_name |-> row.ProductName,
     location |-> row.Location,
     current_stock |-> row.CurrentStock,
     stock_status |-> stock_status(row.CurrentStock),
     last_sold_date |-> row.LastSoldDate,
     expiry_date |-> row.ExpiryDate,
     expiry_status |-> expiry_status(row.ExpiryDate),
     sales_last_month |-> row.SalesLastMonth,
     demand_status |-> demand_status(row.SalesLastMonth),
     total_sales |-> row.TotalSales,
     factory_distance_km |-> row.FactoryDistanceKM,
     distance_status |-> distance_status(row.FactoryDistanceKM),
     priority |-> priority(stock_status(row.CurrentStock),
                           expiry_status(row.ExpiryDate))]

\* The rows handed to a single projection: every stock up to the bound, the
\* dates of the model and texts that are no dates, sales and distances
\* around the thresholds.
StockInputs == 0..MaxStock
ExpiryInputs == DOMAIN StrptimeTable \cup {"2025", "soon"}
SalesInputs == {0, 1, 50, 51, 100, 101}
DistanceInputs == {5, 6, 15, 16}

RecordInputs ==
    {[InitTable[1] EXCEPT !.CurrentStock = c, !.ExpiryDate = e,
                          !.SalesLastMonth = m, !.FactoryDistanceKM = k] :
        c \in StockInputs, e \in ExpiryInputs, m \in SalesInputs,
        k \in DistanceInputs}

(***************************************************************************)
(* The document store and retrieval (main-fixed.py)                        *)
(***************************************************************************)

\* k of retrieve_query.
K == 5

\* documents_table: one document per row of the table the pipeline read.
DocumentStore(table) == {create_document_text(table[i]) : i \in Rows(table)}

\* doc_store.retrieve_query(..., k=5): the k nearest documents; which ones
\* is up to the embedder when the store holds more than k.
retrieve_query(docs) ==
    IF Cardinality(docs) <= K THEN {docs}
    ELSE {D \in SUBSET docs : Cardinality(D) = K}

(***************************************************************************)
(* The prompt (main-fixed.py, build_warehouse_prompt)                      *)
(***************************************************************************)

\* Bound of the model: the longest list handed to build_warehouse_prompt.
MaxDocs == 2

\* The texts an item may carry: none, or the text of a document.
Texts == {"", "Product Information"}

\* The keys build_warehouse_prompt looks up in a dict.
DictKeys == {"text", "chunk", "data"}

\* The items of a list, by the branch of the loop that takes them: an
\* object with a text attribute, a dict with any of the keys, a string, and
\* any other value, whose str() is its printed form.
Objects == {[kind |-> "object", fields |-> [text |-> t]] : t \in Texts}
Dicts ==
    {[kind |-> "dict", fields |-> f] :
        f \in UNION {[keys -> Texts] : keys \in SUBSET DictKeys}}
Strs == {[kind |-> "str", fields |-> [value |-> t]] : t \in Texts}
Others == {[kind |-> "other", fields |-> [str |-> "{\"text\": \"\"}"]]}
Items == Objects \cup Dicts \cup Strs \cup Others

DocsInputs == UNION {[1..n -> Items] : n \in 0..MaxDocs}

\* dict.get(key, default)
Get(d, key, default) == IF key \in DOMAIN d THEN d[key] ELSE default

\* One pass of the loop over docs: what the item adds to context_parts.
Part(doc) ==
    IF doc.kind = "object" THEN <<doc.fields.text>>
    ELSE IF doc.kind = "dict"
    THEN LET text == Get(doc.fields, "text",
                         Get(doc.fields, "chunk", Get(doc.fields, "data", "")))
         IN  IF text # "" THEN <<text>> ELSE << >>
    ELSE IF doc.kind = "str" THEN <<doc.fields.value>>
    ELSE <<doc.fields.str>>

\* The loop over docs.
RECURSIVE context_parts(_)
context_parts(docs) ==
    IF docs = << >> THEN << >>
    ELSE context_parts(SubSeq(docs, 1, Len(docs) - 1)) \o Part(docs[Len(docs)])

\* sep.join(parts)
RECURSIVE Join(_, _)
Join(sep, parts) ==
    IF parts = << >> THEN ""
    ELSE IF Len(parts) = 1 THEN parts[1]
    ELSE Join(sep, SubSeq(parts, 1, Len(parts) - 1)) \o sep \o parts[Len(parts)]

\* The prompt: the template with its two fields, the context and the query.
build_warehouse_prompt(docs, query) ==
    LET parts == context_parts(docs)
        context == IF parts # << >> THEN Join("\n\n---\n\n", parts)
                   ELSE "No inventory data found."
    IN  [context |-> context, query |-> query]

\* No prompt built yet.
NoPrompt == [context |-> "none", query |-> "none"]

\* The questions asked.
Questions ==
    {"Which products are running low on stock?",
     "What products are expiring soon?"}

(***************************************************************************)
(* The query clients (app.py send_rag_query, test-queries-fixed.py         *)
(* send_query)                                                             *)
(***************************************************************************)

\* The default of send_rag_query's timeout parameter and the timeout of
\* send_query, in seconds.
timeout == 30

\* What the server does with a request: it refuses the connection, or it
\* answers after some seconds with a status code and a body that is JSON or
\* plain text.
StatusCodes == {200, 204, 304, 404, 500}
Delays == {1, 31}
Servers ==
    {[accepts |-> FALSE, delay |-> 1, status_code |-> 200, json |-> FALSE]}
    \cup {[accepts |-> TRUE, delay |-> d, status_code |-> c, json |-> j] :
             d \in Delays, c \in StatusCodes, j \in BOOLEAN}

\* requests.post(url, json=payload, headers=headers, timeout=t): one
\* request; the exceptions of a refused connection and of a timeout carry
\* no response (their response attribute is None).
post(server, t) ==
    IF ~server.accepts
    THEN [raises |-> TRUE,
          e |-> [type |-> "ConnectionError", str |-> "Connection refused",
                 response |-> "None"]]
    ELSE IF server.delay > t
    THEN [raises |-> TRUE,
          e |-> [type |-> "ReadTimeout", str |-> "Read timed out",
                 response |-> "None"]]
    ELSE [raises |-> FALSE,
          response |-> [status_code |-> server.status_code,
                        json |-> server.json]]

\* response.raise_for_status(): HTTPError for the codes 400 to 599, with the
\* response attached.
raise_for_status(response) ==
    IF response.status_code >= 400 /\ response.status_code < 600
    THEN [raises |-> TRUE,
          e |-> [type |-> "HTTPError", str |-> "Error for url",
                 response |-> "Response"]]
    ELSE [raises |-> FALSE]

\* The body of the try block of both functions up to the exception or the
\* decoded answer.
Request(server, t) ==
    LET r == post(server, t)
    IN  IF r.raises THEN r
        ELSE LET h == raise_for_status(r.response)
             IN  IF h.raises THEN h
                 ELSE [raises |-> FALSE,
                       data |-> IF r.response.json THEN "result"
                                ELSE "response.text"]

\* The outcome of a call of a function.
Returned(fn, value) ==
    [fn |-> fn, outcome |-> "returned", value |-> value, requests |-> 1]
Raised(fn, type) ==
    [fn |-> fn, outcome |-> "raised", value |-> [exception |-> type],
     requests |-> 1]

\* send_rag_query of app.py. In the except clause, getattr(e, 'response',
\* {}) is the exception's response attribute, which every
\* RequestException has: None or a Response, neither of which has a get
\* method.
send_rag_query(query, t, server) ==
    LET r == Request(server, t)
    IN  IF ~r.raises
        THEN Returned("send_rag_query", [success |-> TRUE, data |-> r.data])
        ELSE IF r.e.response \in {"None", "Response"}
        THEN Raised("send_rag_query", "AttributeError")
        ELSE Returned("send_rag_query",
                      [success |-> FALSE, error |-> r.e.str,
                       response_text |-> ""])

\* send_query of test-queries-fixed.py.
send_query(query, server) ==
    LET r == Request(server, timeout)
    IN  IF ~r.raises
        THEN Returned("send_query", [result |-> r.data])
        ELSE Returned("send_query", [error |-> r.e.str])

\* No call made yet.
NoCall ==
    [fn |-> "none", outcome |-> "none", value |-> [exception |-> "none"],
     requests |-> 0]

(***************************************************************************)
(* The simulator (data_generator.py)                                       *)
(***************************************************************************)

\* Bound of the model: how many events the simulator generates in one run.
MaxEvents == 2

\* Bound of the model: how many update commands are submitted while the
\* simulator runs.
MaxSimCommands == 1

\* num_events = random.randint(2, 5)
MinRoundEvents == 2
MaxRoundEvents == 5

\* The day on which the simulator runs (datetime.now()).
SimToday == <<2025, 9, 22>>

\* (datetime.now() + timedelta(days=n)).strftime('%Y-%m-%d')
DateAfter(n) ==
    CHOOSE t \in DOMAIN StrptimeTable :
        Parses(t) /\ ToOrdinal(StrptimeTable[t]) = ToOrdinal(SimToday) + n

\* The random draws of the events, one or two values of each range: the
\* rows with a low and with no stock, a sale larger than the stock.
SimRows == {1, 2}
SaleUnits == {10}
RestockAmounts == {20}
ReturnUnits == {5}
RestockExpiryDays == {60}
AlertDays == {7}
MoveLocations == {"SectionD-Aisle1-Shelf1"}

Min(a, b) == IF a <= b THEN a ELSE b
Max(a, b) == IF a >= b THEN a ELSE b

\* Mutant of Sale: the units sold are not limited by the stock.
Sale_Unclamped(frame, idx, units) ==
    [frame EXCEPT ![idx] =
        [@ EXCEPT !.CurrentStock = @ - units,
                  !.SalesLastMonth = @ + units,
                  !.TotalSales = @ + units,
                  !.LastSoldDate = DateAfter(0)]]

\* event_type == 'sale'
Sale(frame, idx, units) ==
    LET current_stock == frame[idx].CurrentStock
        units_sold == Min(units, current_stock)
    IN  IF current_stock > 0
        THEN [frame EXCEPT ![idx] =
                [@ EXCEPT !.CurrentStock = current_stock - units_sold,
                          !.SalesLastMonth = @ + units_sold,
                          !.TotalSales = @ + units_sold,
                          !.LastSoldDate = DateAfter(0)]]
        ELSE frame

\* event_type == 'restock'; days is 0 when the batch keeps the expiry date.
Restock(frame, idx, restock_amount, days) ==
    [frame EXCEPT ![idx] =
        [@ EXCEPT !.CurrentStock = @ + restock_amount,
                  !.ExpiryDate = IF days = 0 THEN @ ELSE DateAfter(days)]]

\* event_type == 'return'
Return(frame, idx, units) ==
    LET sales == frame[idx].SalesLastMonth
        return_units == Min(units, sales)
    IN  IF sales > 0
        THEN [frame EXCEPT ![idx] =
                [@ EXCEPT !.CurrentStock = @ + return_units,
                          !.SalesLastMonth = Max(0, sales - return_units)]]
        ELSE frame

\* event_type == 'move'
Move(frame, idx, new_location) ==
    [frame EXCEPT ![idx] = [@ EXCEPT !.Location = new_location]]

\* event_type == 'expiry_update'; days is 0 when the check finds nothing.
ExpiryUpdate(frame, idx, days) ==
    IF days = 0 THEN frame
    ELSE [frame EXCEPT ![idx] = [@ EXCEPT !.ExpiryDate = DateAfter(days)]]

(***************************************************************************)
(* State                                                                   *)
(***************************************************************************)

VARIABLES
    csv_file,         \* the rows of ./data/inventory.csv
    inventory_table,  \* what the pipeline of main-fixed.py last read
    pc,               \* per session: "idle", "save", "writing", "done"
    query,            \* per session: the command being processed
    df,               \* per session: the frame loaded at the top of the run
    updates,          \* per session: the parsed dict
    updated_df,       \* per session: the frame apply_data_updates returned
    message,          \* per session: kind and fields of the returned message
    status,           \* per session: what the handler showed
    wpos,             \* per session: rows written by the open handle
    last_update,      \* per session: st.session_state.last_update (a tick)
    ncmds,            \* commands submitted so far
    history,          \* the last two completed commands, each with the file
                      \* it left behind
    orphan,           \* sessions whose open handle is on a replaced file
    sim_df,           \* the frame the simulator of data_generator.py holds
    sim_events,       \* events of the simulator's current update round
    nevents,          \* simulator events so far
    retrieved,        \* the documents retrieved for the last question
    record,           \* the row handed to create_document_text
    document,         \* the document it returned
    result,           \* the list handed to build_warehouse_prompt
    prompt,           \* the prompt it returned
    messages,         \* the question a client sends
    server,           \* what the server does with the request
    call              \* the outcome of the client function

\* The simulator's own state.
sim_vars == <<sim_df, sim_events, nevents>>

\* The state of the query path and of a single projection.
prompt_vars == <<result, prompt>>
client_vars == <<messages, server, call>>
doc_vars == <<retrieved, record, document, prompt_vars, client_vars>>

vars ==
    <<csv_file, inventory_table, pc, query, df, updates, updated_df, message,
      status, wpos, last_update, ncmds, history, orphan, sim_vars, doc_vars>>

NoMessage == [kind |-> "none", fields |-> {}]

\* No question answered yet.
NoDocuments == {}

\* A command is complete: it and the file at that moment are remembered,
\* together with the completed command before it.
Completed(h, q, file) ==
    LET e == [query |-> q, table |-> file]
    IN  IF Len(h) < 2 THEN Append(h, e) ELSE <<h[2], e>>

InitSystem ==
    /\ csv_file = InitTable
    /\ inventory_table = InitTable
    /\ pc = [s \in Sessions |-> "idle"]
    /\ query = [s \in Sessions |-> << >>]
    /\ df = [s \in Sessions |-> EmptyTable]
    /\ updates = [s \in Sessions |-> EmptyDict]
    /\ updated_df = [s \in Sessions |-> EmptyTable]
    /\ message = [s \in Sessions |-> NoMessage]
    /\ status = [s \in Sessions |-> "none"]
    /\ wpos = [s \in Sessions |-> 0]
    /\ last_update = [s \in Sessions |-> 0]
    /\ ncmds = 0
    /\ history = << >>
    /\ orphan = {}
    /\ sim_df = InitTable
    /\ sim_events = 0
    /\ nevents = 0
    /\ retrieved = NoDocuments
    /\ document = NoDocument
    /\ prompt = NoPrompt
    /\ call = NoCall

\* The inputs of the single functions when they are not the ones examined.
NoQuestion ==
    /\ messages = "Which products are running low on stock?"
    /\ server = [accepts |-> TRUE, delay |-> 1, status_code |-> 200,
                 json |-> TRUE]

\* The system as it starts.
Init ==
    InitSystem /\ record = InitTable[1] /\ result = << >> /\ NoQuestion

\* A single projection: any of the rows above is given to the function.
InitProject ==
    InitSystem /\ record \in RecordInputs /\ result = << >> /\ NoQuestion

\* A single prompt: any of the lists above is given to the function.
InitPrompt ==
    InitSystem /\ record = InitTable[1] /\ result \in DocsInputs /\ NoQuestion

\* A single question: any question is sent to any of the servers above.
InitQuery ==
    /\ InitSystem /\ record = InitTable[1] /\ result = << >>
    /\ messages \in Questions
    /\ server \in Servers

(***************************************************************************)
(* The "Apply Updates" handler and save_inventory_data                     *)
(***************************************************************************)

\* Mutant of ShouldSave: the frame is saved whatever apply returned.
ShouldSave_Always(old, new) == TRUE

\* The condition under which the handler saves the frame.
ShouldSave(old, new) == new # old

\* One run of the script with the button pressed and command q entered:
\* load the frame, parse, apply, and decide whether to save.
UpdateButton(s, q) ==
    /\ pc[s] = "idle"
    /\ ncmds < MaxCommands
    /\ ncmds' = ncmds + 1
    /\ query' = [query EXCEPT ![s] = q]
    /\ LET loaded == load_inventory_data(csv_file)
           parsed == parse_update_query(q)
           out == apply_data_updates(loaded, parsed)
       IN  /\ df' = [df EXCEPT ![s] = loaded]
           /\ IF loaded = EmptyTable
              THEN \* "No inventory data found": the update form is not run
                   /\ updates' = [updates EXCEPT ![s] = EmptyDict]
                   /\ updated_df' = [updated_df EXCEPT ![s] = EmptyTable]
                   /\ message' = [message EXCEPT ![s] = NoMessage]
                   /\ status' = [status EXCEPT ![s] = "no_inventory"]
                   /\ pc' = [pc EXCEPT ![s] = "done"]
              ELSE IF DOMAIN parsed = {}
              THEN \* "Could not parse the update command"
                   /\ updates' = [updates EXCEPT ![s] = EmptyDict]
                   /\ updated_df' = [updated_df EXCEPT ![s] = loaded]
                   /\ message' = [message EXCEPT ![s] = NoMessage]
                   /\ status' = [status EXCEPT ![s] = "parse_error"]
                   /\ pc' = [pc EXCEPT ![s] = "done"]
              ELSE /\ updates' = [updates EXCEPT ![s] = parsed]
                   /\ updated_df' = [updated_df EXCEPT ![s] = out.df]
                   /\ message' = [message EXCEPT ![s] =
                                    [kind |-> out.kind, fields |-> out.fields]]
                   /\ IF ShouldSave(loaded, out.df)
                      THEN /\ status' = [status EXCEPT ![s] = "saving"]
                           /\ pc' = [pc EXCEPT ![s] = "save"]
                      ELSE /\ status' = [status EXCEPT ![s] = "warning"]
                           /\ pc' = [pc EXCEPT ![s] = "done"]
    /\ history' = IF pc'[s] = "done" THEN Completed(history, q, csv_file)
                  ELSE history
    /\ UNCHANGED <<csv_file, inventory_table, wpos, last_update, orphan,
                   sim_vars, doc_vars>>

\* df.to_csv(CSV_FILE_PATH): opening the path for writing truncates it.
SaveOpen(s) ==
    /\ pc[s] = "save"
    /\ csv_file' = EmptyTable
    /\ wpos' = [wpos EXCEPT ![s] = 0]
    /\ orphan' = orphan \ {s}
    /\ pc' = [pc EXCEPT ![s] = "writing"]
    /\ UNCHANGED <<inventory_table, query, df, updates, updated_df, message,
                   status, last_update, ncmds, history, sim_vars, doc_vars>>

\* ... then the rows go out one after the other at the handle's offset.
SaveWrite(s) ==
    /\ pc[s] = "writing"
    /\ wpos[s] < Len(updated_df[s])
    /\ csv_file' = IF s \in orphan THEN csv_file
                   ELSE WriteAt(csv_file, wpos[s] + 1, updated_df[s][wpos[s] + 1])
    /\ wpos' = [wpos EXCEPT ![s] = wpos[s] + 1]
    /\ UNCHANGED <<inventory_table, pc, query, df, updates, updated_df,
                   message, status, last_update, ncmds, history, orphan,
                   sim_vars, doc_vars>>

\* ... and save_inventory_data returns True: "Data saved successfully!".
SaveClose(s) ==
    /\ pc[s] = "writing"
    /\ wpos[s] = Len(updated_df[s])
    /\ last_update' = [last_update EXCEPT ![s] = last_update[s] + 1]
    /\ status' = [status EXCEPT ![s] = "saved"]
    /\ pc' = [pc EXCEPT ![s] = "done"]
    /\ history' = Completed(history, query[s], csv_file)
    /\ orphan' = orphan \ {s}
    /\ UNCHANGED <<csv_file, inventory_table, query, df, updates, updated_df,
                   message, wpos, ncmds, sim_vars, doc_vars>>

\* st.rerun(), or the next interaction: the run's locals are gone.
Rerun(s) ==
    /\ pc[s] = "done"
    /\ pc' = [pc EXCEPT ![s] = "idle"]
    /\ query' = [query EXCEPT ![s] = << >>]
    /\ df' = [df EXCEPT ![s] = EmptyTable]
    /\ updates' = [updates EXCEPT ![s] = EmptyDict]
    /\ updated_df' = [updated_df EXCEPT ![s] = EmptyTable]
    /\ message' = [message EXCEPT ![s] = NoMessage]
    /\ status' = [status EXCEPT ![s] = "none"]
    /\ wpos' = [wpos EXCEPT ![s] = 0]
    /\ UNCHANGED <<csv_file, inventory_table, last_update, ncmds, history,
                   orphan, sim_vars, doc_vars>>

\* Mutant of PipelineRead: mode="static", the file is read when the
\* pipeline starts and never again.
PipelineRead_Static ==
    /\ ncmds = 0
    /\ nevents = 0
    /\ inventory_table # csv_file
    /\ inventory_table' = csv_file
    /\ UNCHANGED <<csv_file, pc, query, df, updates, updated_df, message,
                   status, wpos, last_update, ncmds, history, orphan, sim_vars,
                   doc_vars>>

\* pw.io.csv.read(..., mode="streaming"): the pipeline picks up the file as
\* it is when it looks.
PipelineRead ==
    /\ inventory_table # csv_file
    /\ inventory_table' = csv_file
    /\ UNCHANGED <<csv_file, pc, query, df, updates, updated_df, message,
                   status, wpos, last_update, ncmds, history, orphan, sim_vars,
                   doc_vars>>

\* create_document_text is applied to the row.
Project ==
    /\ document = NoDocument
    /\ document' = create_document_text(record)
    /\ UNCHANGED <<csv_file, inventory_table, pc, query, df, updates,
                   updated_df, message, status, wpos, last_update, ncmds,
                   history, orphan, sim_vars, retrieved, record, prompt_vars,
                   client_vars>>

SpecProject == InitProject /\ [][Project]_vars

\* The other variables of the system, which a simulator event leaves alone.
app_vars ==
    <<csv_file, inventory_table, pc, query, df, updates, updated_df, message,
      status, wpos, last_update, ncmds, history, orphan>>

\* Mutant of SimStep: the simulator reads the dataset file again before an
\* event, so the rows the event leaves alone are those of the file.
SimStep_Reread(frame) ==
    /\ nevents < MaxEvents
    /\ sim_events < MaxRoundEvents
    /\ sim_df' = LET file == load_inventory_data(csv_file)
                 IN  [i \in DOMAIN frame |->
                        IF frame[i] # sim_df[i] \/ i \notin DOMAIN file
                        THEN frame[i] ELSE file[i]]
    /\ sim_events' = sim_events + 1
    /\ nevents' = nevents + 1
    /\ UNCHANGED <<app_vars, doc_vars>>

\* One pass of the event loop of simulate_real_time_updates: the event
\* changes the simulator's frame in memory.
SimStep(frame) ==
    /\ nevents < MaxEvents
    /\ sim_events < MaxRoundEvents
    /\ sim_df' = frame
    /\ sim_events' = sim_events + 1
    /\ nevents' = nevents + 1
    /\ UNCHANGED <<app_vars, doc_vars>>

SimSale ==
    \E idx \in SimRows, units \in SaleUnits :
        SimStep(Sale(sim_df, idx, units))

SimRestock ==
    \E idx \in SimRows, amount \in RestockAmounts,
       days \in {0} \cup RestockExpiryDays :
        SimStep(Restock(sim_df, idx, amount, days))

SimReturn ==
    \E idx \in SimRows, units \in ReturnUnits :
        SimStep(Return(sim_df, idx, units))

SimMove ==
    \E idx \in SimRows, loc \in MoveLocations :
        SimStep(Move(sim_df, idx, loc))

SimExpiryUpdate ==
    \E idx \in SimRows, days \in {0} \cup AlertDays :
        SimStep(ExpiryUpdate(sim_df, idx, days))

\* atomic_csv_update(df, csv_path) at the end of the round: the temporary
\* file takes the place of the dataset file in one step; a handle that a
\* session holds open stays on the file that was replaced.
SimSave ==
    /\ sim_events >= MinRoundEvents
    /\ csv_file' = sim_df
    /\ orphan' = orphan \cup {s \in Sessions : pc[s] = "writing"}
    /\ sim_events' = 0
    /\ UNCHANGED <<inventory_table, pc, query, df, updates, updated_df,
                   message, status, wpos, last_update, ncmds, history,
                   sim_df, nevents, doc_vars>>

\* A question arrives at the REST endpoint: the documents retrieved for it
\* come from the document store as it is.
AskQuestion ==
    /\ \E docs \in retrieve_query(DocumentStore(inventory_table)) :
          retrieved' = docs
    /\ UNCHANGED <<app_vars, sim_vars, record, document, prompt_vars,
                   client_vars>>

\* build_warehouse_prompt is applied to the list and a question.
BuildPrompt ==
    /\ prompt = NoPrompt
    /\ \E q \in Questions : prompt' = build_warehouse_prompt(result, q)
    /\ UNCHANGED <<app_vars, sim_vars, retrieved, record, document, result,
                   client_vars>>

SpecPrompt == InitPrompt /\ [][BuildPrompt]_vars

\* The ask handler of the app calls send_rag_query with the default
\* timeout.
SendRagQuery ==
    /\ call = NoCall
    /\ call' = send_rag_query(messages, timeout, server)
    /\ UNCHANGED <<app_vars, sim_vars, retrieved, record, document,
                   prompt_vars, messages, server>>

\* The test script calls send_query.
SendQuery ==
    /\ call = NoCall
    /\ call' = send_query(messages, server)
    /\ UNCHANGED <<app_vars, sim_vars, retrieved, record, document,
                   prompt_vars, messages, server>>

QueryNext == SendRagQuery \/ SendQuery

SpecQuery == InitQuery /\ [][QueryNext]_vars

\* The commands of the concurrent runs: two that set a field of different
\* products, one that sets another field of the first product, one that is
\* rejected.
CoreCommands ==
    { StockCommand("11023", "50"), StockCommand("11024", "50"),
      <<"Update", "product", "11023", "location", "to", "SectionB">>,
      <<"update", "location", "to", "SectionB">> }

\* The system: every session may run the handler at any time, the pipeline
\* reads when it likes.
Next ==
    \/ \E s \in Sessions, q \in CoreCommands : UpdateButton(s, q)
    \/ \E s \in Sessions : SaveOpen(s)
    \/ \E s \in Sessions : SaveWrite(s)
    \/ \E s \in Sessions : SaveClose(s)
    \/ \E s \in Sessions : Rerun(s)
    \/ PipelineRead

Spec == Init /\ [][Next]_vars

\* One session that submits any of the commands, one after the other.
CommandNext ==
    \/ \E q \in Commands : UpdateButton("s1", q)
    \/ SaveOpen("s1")
    \/ SaveWrite("s1")
    \/ SaveClose("s1")
    \/ Rerun("s1")

SpecCommands == Init /\ [][CommandNext]_vars

\* The commands typed while the simulator runs.
SimCommands ==
    { StockCommand("11023", "50"),
      <<"Update", "product", "11023", "sales", "last", "month", "to", "75">> }

\* One session and the simulator, both writing the dataset file.
SimNext ==
    \/ \E q \in SimCommands : ncmds < MaxSimCommands /\ UpdateButton("s1", q)
    \/ SaveOpen("s1")
    \/ SaveWrite("s1")
    \/ SaveClose("s1")
    \/ Rerun("s1")
    \/ SimSale
    \/ SimRestock
    \/ SimReturn
    \/ SimMove
    \/ SimExpiryUpdate
    \/ SimSave

SpecSim == Init /\ [][SimNext]_vars

\* One session that updates the dataset, the pipeline that follows the
\* file, and questions that arrive at any time.
IndexNext ==
    \/ \E q \in CoreCommands : UpdateButton("s1", q)
    \/ SaveOpen("s1")
    \/ SaveWrite("s1")
    \/ SaveClose("s1")
    \/ Rerun("s1")
    \/ PipelineRead
    \/ AskQuestion

\* pw.run() keeps the streaming reader going: a change of the file that
\* stays is picked up.
SpecIndex == Init /\ [][IndexNext]_vars /\ WF_vars(PipelineRead)

(***************************************************************************)
(* Properties                                                              *)
(***************************************************************************)

\* The handler of session s parsed its command and applied it.
Handled(s) == status[s] \in {"warning", "saving", "saved"}

\* The ProductIDs of the dataset.
ProductIds(t) == {t[i].ProductID : i \in Rows(t)}

\* Table t holds the change of dict u on the record u selects by ProductID.
HoldsChange(t, u) ==
    \E i \in Rows(t) :
        /\ t[i].ProductID = u["ProductID"]
        /\ \A k \in UpdatedFields(u) : t[i][k] = u[k]

\* A table with a row for every product of the dataset and no unwritten row.
CompleteTable(t) ==
    /\ Len(t) = Len(InitTable)
    /\ ProductIds(t) = ProductIds(InitTable)

\* C1: two update commands that target different ProductIDs of the dataset
\* and run concurrently both succeed, and once both are complete the
\* dataset file holds both changes.  (Stated for two commands that each
\* loaded a complete table and each saved: the file then holds both.)
C1_BothChangesPresent ==
    ( /\ \A s \in Sessions :
            /\ pc[s] = "done"
            /\ status[s] = "saved"
            /\ CompleteTable(df[s])
            /\ "ProductID" \in DOMAIN updates[s]
      /\ updates["s1"]["ProductID"] # updates["s2"]["ProductID"] )
    => \A s \in Sessions : HoldsChange(csv_file, updates[s])

\* C2: every write of the dataset file is an atomic replace, so whatever a
\* reader reads (the pipeline, or a session loading the frame) while a
\* writer saves is a complete table, never a partly written one.
C2_ReadersSeeCompleteTables ==
    /\ CompleteTable(inventory_table)
    /\ \A s \in Sessions : pc[s] # "idle" => CompleteTable(df[s])

\* C3: two concurrent update commands on the same ProductID leave the file
\* equal to the whole table that one of them wrote, never a mix of the two
\* writes.
C3_FileIsOneWritersTable ==
    ( /\ \A s \in Sessions : pc[s] = "done" /\ status[s] = "saved"
      /\ \A s \in Sessions : "ProductID" \in DOMAIN updates[s]
      /\ updates["s1"]["ProductID"] = updates["s2"]["ProductID"] )
    => \E s \in Sessions : csv_file = updated_df[s]

\* The selector of dict u picks row i of table t: by ProductID when the
\* dict holds one, else by the old name, whatever the case of the letters.
Selects(u, t, i) ==
    IF "ProductID" \in DOMAIN u THEN t[i].ProductID = u["ProductID"]
    ELSE Lower(t[i].ProductName) = Lower(u["old_name"])

HasSelector(u) == {"ProductID", "old_name"} \cap DOMAIN u # {}

\* C4: "Update product <id> stock to <n>" parses to exactly
\* {ProductID: id, CurrentStock: n}; applied to a table that holds a record
\* with that ProductID, it sets that record's CurrentStock to n and leaves
\* every other field of it and every other record as they were.
C4_StockCommandSetsOnlyStock ==
    \A s \in Sessions : \A id \in IdTokens : \A n \in {"5", "50"} :
        (Handled(s) /\ query[s] = StockCommand(id, n)) =>
            /\ updates[s] =
                 ("ProductID" :> DigitRun[id]) @@ ("CurrentStock" :> DigitRun[n])
            /\ (DigitRun[id] \in ProductIds(df[s])) =>
                 /\ Len(updated_df[s]) = Len(df[s])
                 /\ \A i \in Rows(df[s]) :
                      updated_df[s][i] =
                        IF df[s][i].ProductID = DigitRun[id]
                        THEN [df[s][i] EXCEPT !.CurrentStock = DigitRun[n]]
                        ELSE df[s][i]

\* Witness of C4: the stock of product 11023 goes from 5 to 50 and is saved.
C4_Witness ==
    \E s \in Sessions :
        /\ query[s] = StockCommand("11023", "50")
        /\ status[s] = "saved"
        /\ df[s][1].CurrentStock = 5
        /\ csv_file[1].CurrentStock = 50

\* C5: whenever an update command is rejected (no target selector, target
\* not found, or no applicable field) the dataset file is not written and
\* the stored table is what it was before the command.
C5_RejectedLeavesFileAlone ==
    \A s \in Sessions :
        message[s].kind \in {"MissingTarget", "NotFound", "NoValid"} =>
            /\ pc[s] = "done"
            /\ status[s] = "warning"
            /\ updated_df[s] = df[s]
            /\ csv_file = df[s]

\* Witness of C5: a command without a target is rejected after an earlier
\* command changed the file.
C5_Witness ==
    \E s \in Sessions :
        /\ message[s].kind = "MissingTarget"
        /\ csv_file # InitTable
        /\ csv_file = df[s]

\* C6: a command that names a field and a value but holds neither a
\* ProductID nor the rename form (such as "update location to SectionB") is
\* rejected with the missing-target outcome and changes no record.
C6_NoTargetIsRejected ==
    \A s \in Sessions :
        (pc[s] # "idle" /\ query[s] \in NoTargetCommands) =>
            /\ DOMAIN updates[s] # {}
            /\ ~HasSelector(updates[s])
            /\ message[s].kind = "MissingTarget"
            /\ updated_df[s] = df[s]
            /\ pc[s] = "done"

\* Witness of C6: the command of the specification's example was rejected.
C6_Witness ==
    \E s \in Sessions :
        /\ query[s] = <<"update", "location", "to", "SectionB">>
        /\ updates[s] = ("Location" :> "sectionb")
        /\ message[s].kind = "MissingTarget"

\* C7: a command whose selector matches no record is rejected with the
\* target-not-found outcome; no record is inserted, so the number of
\* records and the set of ProductIDs are as before.
C7_NotFoundInsertsNothing ==
    \A s \in Sessions :
        ( /\ Handled(s)
          /\ HasSelector(updates[s])
          /\ ~\E i \in Rows(df[s]) : Selects(updates[s], df[s], i) )
        => /\ message[s].kind = "NotFound"
           /\ Len(updated_df[s]) = Len(df[s])
           /\ ProductIds(updated_df[s]) = ProductIds(df[s])
           /\ updated_df[s] = df[s]
           /\ pc[s] = "done"

\* Witness of C7: a ProductID that is not in the dataset was not found.
C7_Witness ==
    \E s \in Sessions :
        /\ query[s] = StockCommand("11099", "50")
        /\ message[s].kind = "NotFound"
        /\ ~(11099 \in ProductIds(csv_file))

\* C8: with a resolved target, a command succeeds if and only if at least
\* one parsed field other than the selector was written to the record;
\* when no parsed field is a store column it fails with the
\* no-applicable-fields outcome.
C8_SuccessIffFieldApplied ==
    \A s \in Sessions :
        ( /\ Handled(s)
          /\ HasSelector(updates[s])
          /\ \E i \in Rows(df[s]) : Selects(updates[s], df[s], i) )
        => LET applied == (DOMAIN updates[s] \cap Columns) \ {"ProductID"}
           IN  /\ message[s].kind = "Success" <=> applied # {}
               /\ applied = {} => message[s].kind = "NoValid"

\* C9: when the parsed command holds a ProductID the target is the record
\* with that ProductID, even if a name was extracted too; when it holds
\* only a name the target is the record whose ProductName equals it,
\* ignoring case.  No other record is touched, and a record that the
\* selector picks receives the parsed values.
C9_TargetResolution ==
    \A s \in Sessions :
        (Handled(s) /\ HasSelector(updates[s])) =>
            LET u == updates[s]
                picked == {i \in Rows(df[s]) : Selects(u, df[s], i)}
            IN  /\ \A i \in Rows(df[s]) :
                     updated_df[s][i] # df[s][i] => i \in picked
                /\ picked # {} =>
                     /\ message[s].kind = "Success"
                     /\ \E i \in picked :
                          \A k \in DOMAIN u \cap Columns :
                              updated_df[s][i][k] = u[k]

\* Witness of C9: a command with a ProductID and a name, where the name
\* belongs to other records than the ProductID, renamed the record of the
\* ProductID.
C9_Witness ==
    \E s \in Sessions :
        /\ {"ProductID", "old_name"} \subseteq DOMAIN updates[s]
        /\ status[s] = "saving"
        /\ \E i, j \in Rows(df[s]) :
              /\ i # j
              /\ df[s][i].ProductID = updates[s]["ProductID"]
              /\ Lower(df[s][j].ProductName) = updates[s]["old_name"]
              /\ updated_df[s][i].ProductName = updates[s]["ProductName"]
              /\ updated_df[s][j] = df[s][j]

\* C10: when the name selector of a command matches more than one record,
\* only the first matching record is modified; every other record of that
\* name is left as it was.
C10_OnlyFirstMatchModified ==
    \A s \in Sessions :
        ( /\ Handled(s)
          /\ "old_name" \in DOMAIN updates[s]
          /\ ~("ProductID" \in DOMAIN updates[s]) )
        => LET picked == {i \in Rows(df[s]) :
                            Selects(updates[s], df[s], i)}
           IN  \A i \in picked :
                   i # SetMin(picked) => updated_df[s][i] = df[s][i]

\* The command "Update product <id> <phrase> to <n>" for the keyword phrase
\* of an integer field.
IntFieldCommand(id, phrase, n) == <<"Update", "product", id>> \o phrase \o <<"to", n>>

\* The three integer fields a command can name, with their keyword phrases.
IntFieldPhrases ==
    ("CurrentStock" :> <<"stock">>) @@
    ("SalesLastMonth" :> <<"sales", "last", "month">>) @@
    ("FactoryDistanceKM" :> <<"factory", "distance">>)

\* C11: for each of the integer fields CurrentStock, SalesLastMonth and
\* FactoryDistanceKM, a command with a ProductID of the dataset, the
\* field's keyword phrase and "to" followed by an integer n sets that
\* column of the target record to n.
C11_IntegerFieldIsSet ==
    \A s \in Sessions : \A c \in DOMAIN IntFieldPhrases :
        \A id \in IdTokens : \A n \in {"5", "50", "75"} :
            ( /\ Handled(s)
              /\ query[s] = IntFieldCommand(id, IntFieldPhrases[c], n)
              /\ DigitRun[id] \in ProductIds(df[s]) )
            => \E i \in Rows(updated_df[s]) :
                  /\ updated_df[s][i].ProductID = DigitRun[id]
                  /\ updated_df[s][i][c] = DigitRun[n]

\* C12: the example command of the page that names the product by its name
\* and holds no ProductID, "Update Organic Apples location to SectionB", is
\* accepted: it resolves to the record named "Organic Apples" and sets its
\* Location.
C12_ExampleByNameIsApplied ==
    \A s \in Sessions :
        ( /\ Handled(s)
          /\ query[s] = <<"Update", "Organic", "Apples", "location", "to", "SectionB">>
          /\ \E i \in Rows(df[s]) : df[s][i].ProductName = "Organic Apples" )
        => /\ message[s].kind = "Success"
           /\ \E i \in Rows(updated_df[s]) :
                 /\ updated_df[s][i].ProductName = "Organic Apples"
                 /\ Lower(updated_df[s][i].Location) = "sectionb"

\* C13: applying the same update command twice in a row (parse, apply,
\* save, then once more on the file that resulted) leaves the table as the
\* first application left it, for every command of the model (all set
\* absolute values), the rename form included.
C13_SecondApplicationChangesNothing ==
    (Len(history) = 2 /\ history[1].query = history[2].query)
    => history[2].table = history[1].table

\* Witness of C13: the rename command ran twice in a row, and the first run
\* changed the file.
C13_Witness ==
    /\ Len(history) = 2
    /\ history[1].query = <<"Update", "product", "name", "Anand", "as", "Dubey">>
    /\ history[2].query = history[1].query
    /\ history[1].table # InitTable
    /\ csv_file = history[2].table

\* C17: the stock status of a projected document is OUT OF STOCK when
\* CurrentStock is 0, CRITICAL LOW STOCK when it is 1..9, LOW STOCK when it
\* is 10..49 and ADEQUATE STOCK when it is 50 or more.
C17_StockStatusByRange ==
    document # NoDocument =>
        /\ document.current_stock = record.CurrentStock
        /\ record.CurrentStock = 0 => document.stock_status = "OUT OF STOCK"
        /\ record.CurrentStock \in 1..9 =>
              document.stock_status = "CRITICAL LOW STOCK"
        /\ record.CurrentStock \in 10..49 => document.stock_status = "LOW STOCK"
        /\ record.CurrentStock >= 50 => document.stock_status = "ADEQUATE STOCK"

\* Witness of C17: a record with stock above 50 was projected as adequate.
C17_Witness ==
    /\ document # NoDocument
    /\ record.CurrentStock > 50
    /\ document.stock_status = "ADEQUATE STOCK"

\* The stock status the sentence on boundaries gives for the five values.
BoundaryStatus_Stated ==
    (0 :> "OUT OF STOCK") @@ (9 :> "CRITICAL LOW STOCK") @@
    (10 :> "CRITICAL LOW STOCK") @@ (49 :> "LOW STOCK") @@
    (50 :> "ADEQUATE STOCK")

\* The same with 10 as the first value of LOW STOCK.
BoundaryStatus ==
    (0 :> "OUT OF STOCK") @@ (9 :> "CRITICAL LOW STOCK") @@
    (10 :> "LOW STOCK") @@ (49 :> "LOW STOCK") @@ (50 :> "ADEQUATE STOCK")

\* C18 as stated: CurrentStock of exactly 0, 9, 10, 49, 50 is projected as
\* OUT OF STOCK, CRITICAL LOW STOCK, CRITICAL LOW STOCK, LOW STOCK,
\* ADEQUATE STOCK.
C18_BoundariesAsStated ==
    (document # NoDocument /\ record.CurrentStock \in DOMAIN BoundaryStatus_Stated)
    => document.stock_status = BoundaryStatus_Stated[record.CurrentStock]

\* C18 amended: CurrentStock of exactly 0, 9, 10, 49, 50 is projected as
\* OUT OF STOCK, CRITICAL LOW STOCK, LOW STOCK, LOW STOCK, ADEQUATE STOCK.
C18_Boundaries ==
    (document # NoDocument /\ record.CurrentStock \in DOMAIN BoundaryStatus)
    => document.stock_status = BoundaryStatus[record.CurrentStock]

\* Witness of C18: a record with a stock of exactly 10 was projected as low.
C18_Witness ==
    /\ document # NoDocument
    /\ record.CurrentStock = 10
    /\ document.stock_status = "LOW STOCK"

\* The days from the reference date 2025-09-22 to the dates of the model,
\* counted on the calendar.
DaysFromReference ==
    ("2024-02-29" :> -571) @@ ("2025-09-19" :> -3) @@ ("2025-09-20" :> -2) @@
    ("2025-09-21" :> -1) @@ ("2025-09-22" :> 0) @@ ("2025-09-23" :> 1) @@
    ("2025-09-25" :> 3) @@ ("2025-09-28" :> 6) @@ ("2025-09-29" :> 7) @@
    ("2025-09-30" :> 8) @@ ("2025-10-15" :> 23) @@ ("2025-10-22" :> 30) @@
    ("2025-10-23" :> 31) @@ ("2025-11-21" :> 60) @@ ("2026-03-01" :> 160)

\* C19: with days = ExpiryDate minus the reference date, the expiry status
\* is EXPIRED for days < 0, EXPIRES SOON for 0..7, EXPIRES THIS MONTH for
\* 8..30 and FRESH for 31 or more; in particular the dates at exactly -1,
\* 0, 7, 8, 30 and 31 days are projected as EXPIRED, SOON, SOON, THIS MONTH,
\* THIS MONTH, FRESH.
C19_ExpiryStatusByDays ==
    (document # NoDocument /\ record.ExpiryDate \in DOMAIN DaysFromReference)
    => LET days == DaysFromReference[record.ExpiryDate]
       IN  /\ days < 0 => document.expiry_status = "EXPIRED"
           /\ days \in 0..7 => document.expiry_status = "EXPIRES SOON - URGENT"
           /\ days \in 8..30 => document.expiry_status = "EXPIRES THIS MONTH"
           /\ days >= 31 => document.expiry_status = "FRESH"

\* Witness of C19: dates at exactly -1, 0, 7, 8, 30 and 31 days are among
\* the inputs, and the one at 30 days was projected as expiring this month.
C19_Witness ==
    /\ {-1, 0, 7, 8, 30, 31} \subseteq
          {DaysFromReference[t] : t \in DOMAIN DaysFromReference \cap ExpiryInputs}
    /\ document # NoDocument
    /\ record.ExpiryDate \in DOMAIN DaysFromReference
    /\ DaysFromReference[record.ExpiryDate] = 30
    /\ document.expiry_status = "EXPIRES THIS MONTH"

\* The parts of a document that do not depend on the expiry date.
OtherParts(d) ==
    [f \in {"product_id", "product_name", "location", "current_stock",
            "stock_status", "last_sold_date", "sales_last_month",
            "demand_status", "total_sales", "factory_distance_km",
            "distance_status"} |-> d[f]]

\* C20: when the ExpiryDate of a record does not parse, the projection
\* still returns a document: its expiry status is UNKNOWN EXPIRY, and its
\* stock, demand and distance labels and its field values are those of the
\* same record with a date that parses.
C20_UnparseableDateDegradesOneLabel ==
    (document # NoDocument /\ record.ExpiryDate \notin DOMAIN DaysFromReference)
    => /\ document.text = "Product Information"
       /\ document.expiry_status = "UNKNOWN EXPIRY"
       /\ document.expiry_date = record.ExpiryDate
       /\ document.current_stock = record.CurrentStock
       /\ document.sales_last_month = record.SalesLastMonth
       /\ document.factory_distance_km = record.FactoryDistanceKM
       /\ \A t \in DOMAIN DaysFromReference :
             OtherParts(document) =
               OtherParts(create_document_text([record EXCEPT !.ExpiryDate = t]))

\* Witness of C20: the text "2025-13-45" was projected with an unknown
\* expiry for a record that is out of stock.
C20_Witness ==
    /\ record.ExpiryDate = "2025-13-45"
    /\ record.CurrentStock = 0
    /\ document # NoDocument
    /\ document.expiry_status = "UNKNOWN EXPIRY"
    /\ document.priority = "HIGH PRIORITY"

\* A session is writing the dataset file.
WriteInProgress == \E s \in Sessions : pc[s] = "writing"

\* The table the document store is built from is the content of the file.
Indexed == inventory_table = csv_file

\* C14: after any committed write of the dataset file, if no further write
\* occurs, the index is eventually rebuilt from that file's contents, and
\* every question answered from then on retrieves documents projected from
\* the records of the file, not from superseded ones.
C14_IndexFollowsCommittedWrite ==
    /\ (~WriteInProgress) ~> (WriteInProgress \/ Indexed)
    /\ [][(Indexed /\ Indexed' /\ retrieved' # retrieved)
            => retrieved' = DocumentStore(csv_file')]_vars

\* Witness of C14: an update command changed the file, the pipeline read it,
\* and a question was answered with the documents of the new records.
C14_Witness ==
    /\ ~WriteInProgress
    /\ csv_file # InitTable
    /\ Indexed
    /\ retrieved = DocumentStore(csv_file)
    /\ \E d \in retrieved : d.product_id = 11023 /\ d.current_stock = 50

\* Every record of table t has a CurrentStock and a SalesLastMonth that are
\* non-negative integers.
NonNegative(t) ==
    \A i \in Rows(t) : t[i].CurrentStock \in Nat /\ t[i].SalesLastMonth \in Nat

\* C15: after any sequence of simulator events (sale, restock, return,
\* move, expiry update) and update commands, starting from a table whose
\* CurrentStock and SalesLastMonth are non-negative, every record of the
\* dataset file, of the simulator's frame and of a frame a command produced
\* still has a non-negative integer CurrentStock and SalesLastMonth.
C15_StockAndSalesNonNegative ==
    /\ NonNegative(csv_file)
    /\ NonNegative(sim_df)
    /\ \A s \in Sessions : NonNegative(updated_df[s])

\* Witness of C15: a sale of 10 units of a product with 5 in stock left a
\* stock of 0 in the dataset file, after an update command was saved.
C15_Witness ==
    /\ history # << >>
    /\ history[1].table # InitTable
    /\ nevents >= MinRoundEvents
    /\ sim_events = 0
    /\ csv_file = sim_df
    /\ csv_file[1].CurrentStock = 0
    /\ csv_file[1].SalesLastMonth = InitTable[1].SalesLastMonth + 5

\* C16: starting from a table with unique ProductIDs, after any sequence
\* of update commands, once no command is being processed the table that
\* the dataset file holds has the same ProductIDs as at the start, each on
\* exactly one record.
C16_ProductIdsUnchanged ==
    ( /\ \A s \in Sessions : pc[s] \in {"idle", "done"}
      /\ load_inventory_data(csv_file) # EmptyTable )
    => /\ ProductIds(csv_file) = ProductIds(InitTable)
       /\ Len(csv_file) = Len(InitTable)

\* C21: a projected document's priority is HIGH PRIORITY exactly when its
\* stock status is CRITICAL LOW STOCK or OUT OF STOCK or its expiry status
\* is EXPIRES SOON, and NORMAL PRIORITY in every other case: an expired
\* product or one of unknown expiry with low or adequate stock is of normal
\* priority.
C21_PriorityByLabels ==
    document # NoDocument
    => /\ document.priority \in {"HIGH PRIORITY", "NORMAL PRIORITY"}
       /\ document.priority = "HIGH PRIORITY"
            <=> \/ document.stock_status = "CRITICAL LOW STOCK"
                \/ document.stock_status = "OUT OF STOCK"
                \/ document.expiry_status = "EXPIRES SOON - URGENT"
       /\ ( /\ document.expiry_status \in {"EXPIRED", "UNKNOWN EXPIRY"}
            /\ document.stock_status \in {"LOW STOCK", "ADEQUATE STOCK"} )
            => document.priority = "NORMAL PRIORITY"

\* Witness of C21: an expired record with a stock of 20 was projected with
\* normal priority.
C21_Witness ==
    /\ document # NoDocument
    /\ record.CurrentStock = 20
    /\ document.stock_status = "LOW STOCK"
    /\ document.expiry_status = "EXPIRED"
    /\ document.priority = "NORMAL PRIORITY"

\* The texts an item of the list carries.
Carried(doc) == {doc.fields[k] : k \in DOMAIN doc.fields}

\* C22: for every list of retrieved documents, the empty list and lists
\* whose items carry empty text included, the context placed in the prompt
\* is not empty, and it is the placeholder "No inventory data found." when
\* no item carries any text.
C22_ContextNeverEmpty ==
    prompt # NoPrompt
    => /\ prompt.context # ""
       /\ (\A i \in 1..Len(result) : Carried(result[i]) \subseteq {""})
            => prompt.context = "No inventory data found."

\* The request fails: no connection, no answer within the timeout, or a
\* status code outside 200..299.
Fails(sv) ==
    \/ ~sv.accepts
    \/ sv.delay > 30
    \/ sv.status_code \notin 200..299

\* C23: when a question request fails (timeout after 30 s, connection
\* error, status code that is not 2xx), the client function returns a
\* failure result that carries the text of the error, does not raise, and
\* has made exactly one request.
C23_FailureIsReturnedOnce ==
    (call # NoCall /\ Fails(server))
    => /\ call.outcome = "returned"
       /\ call.requests = 1
       /\ "error" \in DOMAIN call.value
       /\ call.value.error # ""

\* The frame is what one event of the simulator makes of the frame before.
EventOf(before, frame) ==
    \E idx \in SimRows :
        /\ \A i \in Rows(before) \ {idx} : frame[i] = before[i]
        /\ \/ \E units \in SaleUnits : frame = Sale(before, idx, units)
           \/ \E amount \in RestockAmounts, days \in {0} \cup RestockExpiryDays :
                 frame = Restock(before, idx, amount, days)
           \/ \E units \in ReturnUnits : frame = Return(before, idx, units)
           \/ \E loc \in MoveLocations : frame = Move(before, idx, loc)
           \/ \E days \in {0} \cup AlertDays :
                 frame = ExpiryUpdate(before, idx, days)

\* C24: the simulator never reads the dataset file after it has started.
\* Its frame changes only by its own events, whatever the file holds, and
\* every tick replaces the whole file with that frame, so a value an update
\* command wrote to the file before the tick is replaced by the
\* simulator's value.
C24_TickWritesSimulatorsTable ==
    [][ /\ (sim_events # 0 /\ sim_events' = 0)
            => (csv_file' = sim_df /\ sim_df' = sim_df)
        /\ sim_df' # sim_df => EventOf(sim_df, sim_df') ]_vars

\* Witness of C24: a command completed with a stock of 50 for product
\* 11023 in the file; after the tick the file is the simulator's frame and
\* the stock of the product in it is not 50.
C24_Witness ==
    /\ history # << >>
    /\ history[Len(history)].table # EmptyTable
    /\ history[Len(history)].table[1].CurrentStock = 50
    /\ nevents >= MinRoundEvents
    /\ sim_events = 0
    /\ csv_file = sim_df
    /\ csv_file[1].CurrentStock # 50

\* The keys of the dict whose values are strings of letters.
StringKeys == {"Location", "ProductName", "old_name"}

\* The text has no upper-case letter.
IsLowerCase(v) == v \notin DOMAIN LowerTable

\* C25: parse_update_query lower-cases the whole command before it extracts
\* anything, so the Location, the new ProductName and the old name it
\* extracts are lower-case, each the lower-cased form of a word the user
\* typed, and a successful update stores that lower-cased value in the
\* record.
C25_StringValuesAreLowerCased ==
    \A s \in Sessions :
        Handled(s) =>
            LET u == updates[s]
            IN  /\ \A k \in DOMAIN u \cap StringKeys :
                     /\ IsLowerCase(u[k])
                     /\ \E i \in 1..Len(query[s]) : u[k] = Lower(query[s][i])
                /\ message[s].kind = "Success" =>
                     \A k \in DOMAIN u \cap StringKeys \cap Columns :
                         \E i \in Rows(updated_df[s]) :
                             /\ Selects(u, df[s], i)
                             /\ updated_df[s][i][k] = u[k]
                             /\ IsLowerCase(updated_df[s][i][k])

\* Witness of C25: "Update product 11023 location to SectionB" was saved
\* and the Location of the record in the file is "sectionb".
C25_Witness ==
    \E s \in Sessions :
        /\ query[s] = <<"Update", "product", "11023", "location", "to", "SectionB">>
        /\ status[s] = "saved"
        /\ updates[s]["Location"] = "sectionb"
        /\ csv_file[1].Location = "sectionb"
        /\ csv_file[1].Location # "SectionB"

====
